---- MODULE Spec2Model ----
(***************************************************************************)
(* Model of PM_agent.py: the session-scoped ProjectManagementSystem with   *)
(* its two entry points (run_project_planning, analyze_project_status),    *)
(* the TokenUsageTracker ledger, the cost estimator, the report state and  *)
(* the two read-only views (format_summary, generate_project_report), and  *)
(* the Streamlit handlers that call them.                                  *)
(*                                                                         *)
(* Texts are strings; len(text) is Len.  A cost is a float in the source;  *)
(* here it is the exact value in millionths of a dollar (micro-dollars),   *)
(* so (tokens / 1_000_000) * 9.0 dollars is tokens * 9 micro-dollars.      *)
(* Floating-point rounding of that product is not modelled.                *)
(*                                                                         *)
(* crew.kickoff() is the crewai library's: under Process.sequential it     *)
(* runs crew.tasks in list order, each task's agent calling the provider,  *)
(* and returns the last task's output or raises.  One provider call per    *)
(* task is modelled.                                                       *)
(***************************************************************************)
EXTENDS Integers, Sequences, FiniteSets, TLC

\* ---------------------------------------------------------------- bounds
\* Runs started, over all sessions, in one behaviour of Spec.
MaxRuns == 2
\* Records appended to the tracker in one behaviour of SpecTracker.
MaxHistory == 11
\* Longest text handed to the estimator in SpecEstimator.
MaxChars == 60

\* ------------------------------------------------------ program constants
\* len(text) // 4
CharsPerToken == 4
\* * 9.0 per 1_000_000 tokens
RatePerMillion == 9
\* summary['history'][-5:]
SummaryWindow == 5
\* token_usage['history'][-10:]
ReportWindow == 10

\* ------------------------------------------------------------ input sets
\* Browser sessions; each holds its own pm_system in st.session_state.
Sessions == {1, 2}
\* Texts a caller can type into the first and the second text area.
FirstInputs == {"", "app"}
SecondInputs == {"", "devs"}
\* Texts the provider can return for a task.
Outputs == {"plan", "long review text"}
\* datetime.now().strftime("%H:%M:%S")
Times == {"09:00:00", "17:30:59"}

PLANNING == "Project Planning"
ANALYSIS == "Status Analysis"

VARIABLES
    token_tracker,  \* object -> [total_tokens, total_cost, session_history]
    report_data,    \* object -> dict (function from section key to text)
    pc,             \* session -> "idle" | "ready" | "waiting"
    crew,           \* session -> the Crew of the run in progress
    last,           \* session -> what the latest call did (op, via, status,
                    \*   calls, and the result kickoff returned)
    pre,            \* session -> ledger and report as the run in progress, or
                    \*   the latest failed run, found them (after a run that
                    \*   succeeded: as it left them)
    shown,          \* session -> the latest rendered view
    runs,           \* runs started so far
    process,        \* the process: its ANTHROPIC_API_KEY and the module's llm
    est_text,       \* SpecEstimator: the text under estimation
    est_result      \* SpecEstimator: the estimator's latest result

vars == <<token_tracker, report_data, pc, crew, last, pre, shown, runs,
          process, est_text, est_result>>

\* ------------------------------------------------------------- helpers
Min(a, b) == IF a < b THEN a ELSE b
Max(a, b) == IF a > b THEN a ELSE b

EmptyDict == [k \in {} |-> ""]

\* dict.update(new)
DictUpdate(d, new) ==
    [k \in (DOMAIN d) \cup (DOMAIN new) |->
        IF k \in DOMAIN new THEN new[k] ELSE d[k]]

\* seq[-n:]
LastN(seq, n) == SubSeq(seq, Max(1, Len(seq) - n + 1), Len(seq))

RECURSIVE SumField(_, _)
SumField(seq, f) ==
    IF seq = <<>> THEN 0 ELSE seq[1][f] + SumField(Tail(seq), f)

\* f"{x:.4f}" of a cost: the cost in ten-thousandths of a dollar, rounded.
Format4(cost) == (cost + 50) \div 100

Truthy(text) == text /= ""

\* ------------------------------------------- class ProjectManagementAgents
project_planner == [role |-> "Project Planner"]
task_allocator == [role |-> "Task Allocator"]
progress_monitor == [role |-> "Progress Monitor"]
quality_reviewer == [role |-> "Quality Reviewer"]

\* -------------------------------------------- class ProjectManagementTasks
\* A Task is its agent, its template and the texts rendered into the
\* template's placeholders.
create_project_plan(agent, project_description) ==
    [agent |-> agent, template |-> "create_project_plan",
     slots |-> [project_description |-> project_description]]

allocate_tasks(agent, project_plan, team_info) ==
    [agent |-> agent, template |-> "allocate_tasks",
     slots |-> [project_plan |-> project_plan, team_info |-> team_info]]

monitor_progress(agent, project_status) ==
    [agent |-> agent, template |-> "monitor_progress",
     slots |-> [project_status |-> project_status]]

review_quality(agent, deliverables) ==
    [agent |-> agent, template |-> "review_quality",
     slots |-> [deliverables |-> deliverables]]

\* len() of a task's description with empty texts in its placeholders: the
\* literal characters of the f-string.
TemplateLen(template) ==
    CASE template = "create_project_plan" -> 363
      [] template = "allocate_tasks" -> 431
      [] template = "monitor_progress" -> 395
      [] template = "review_quality" -> 361

\* len(task.description): the rendered instructions of a stage.
RenderedLen(task) ==
    TemplateLen(task.template) +
    CASE task.template = "create_project_plan" ->
            Len(task.slots.project_description)
      [] task.template = "allocate_tasks" ->
            Len(task.slots.project_plan) + Len(task.slots.team_info)
      [] task.template = "monitor_progress" -> Len(task.slots.project_status)
      [] task.template = "review_quality" -> Len(task.slots.deliverables)

\* ------------------------------------------------ class TokenUsageTracker
NewTracker == [total_tokens |-> 0, total_cost |-> 0, session_history |-> <<>>]

add_usage_no_cost(tr, tokens_used, cost, operation, now) ==
    [total_tokens |-> tr.total_tokens + tokens_used,
     total_cost |-> tr.total_cost,
     session_history |-> Append(tr.session_history,
        [timestamp |-> now, operation |-> operation,
         tokens |-> tokens_used, cost |-> cost])]

add_usage_twice(tr, tokens_used, cost, operation, now) ==
    LET rec == [timestamp |-> now, operation |-> operation,
                tokens |-> tokens_used, cost |-> cost]
    IN [total_tokens |-> tr.total_tokens + 2 * tokens_used,
        total_cost |-> tr.total_cost + 2 * cost,
        session_history |-> tr.session_history \o <<rec, rec>>]

add_usage_pruned(tr, tokens_used, cost, operation, now) ==
    LET h == Append(tr.session_history,
                [timestamp |-> now, operation |-> operation,
                 tokens |-> tokens_used, cost |-> cost])
        kept == LastN(h, 1)
    IN [total_tokens |-> SumField(kept, "tokens"),
        total_cost |-> SumField(kept, "cost"),
        session_history |-> kept]

add_usage(tr, tokens_used, cost, operation, now) ==
    [total_tokens |-> tr.total_tokens + tokens_used,
     total_cost |-> tr.total_cost + cost,
     session_history |-> Append(tr.session_history,
        [timestamp |-> now, operation |-> operation,
         tokens |-> tokens_used, cost |-> cost])]

get_summary(tr) ==
    [total_tokens |-> tr.total_tokens,
     total_cost |-> tr.total_cost,
     operations |-> Len(tr.session_history),
     history |-> tr.session_history]

\* One line of history_text.
SummaryLine(item) ==
    [timestamp |-> item.timestamp, operation |-> item.operation,
     tokens |-> item.tokens, cost |-> Format4(item.cost)]

format_summary_first(tr) ==
    LET summary == get_summary(tr)
        recent == SubSeq(summary.history, 1,
                         Min(SummaryWindow, Len(summary.history)))
    IN [total_tokens |-> summary.total_tokens,
        total_cost |-> Format4(summary.total_cost),
        operations |-> summary.operations,
        history_text |-> [i \in 1..Len(recent) |-> SummaryLine(recent[i])]]

format_summary(tr) ==
    LET summary == get_summary(tr)
        recent == LastN(summary.history, SummaryWindow)
    IN [total_tokens |-> summary.total_tokens,
        total_cost |-> Format4(summary.total_cost),
        operations |-> summary.operations,
        history_text |-> [i \in 1..Len(recent) |-> SummaryLine(recent[i])]]

\* ------------------------------------------------ class PDFReportGenerator
\* One row of history_data.
HistoryRow(item) ==
    [timestamp |-> item.timestamp, operation |-> item.operation,
     tokens |-> item.tokens, cost |-> Format4(item.cost)]

generate_project_report_placeholder(project_data, token_usage) ==
    LET has(k) == k \in DOMAIN project_data
        overview == IF has("project_description")
                    THEN <<[section |-> "Project Overview",
                            text |-> project_data["project_description"]]>>
                    ELSE <<>>
        team == IF has("team_info")
                THEN <<[section |-> "Team", text |-> project_data["team_info"]]>>
                ELSE <<>>
        plan == IF has("project_plan")
                THEN <<[section |-> "Project Plan",
                        text |-> project_data["project_plan"]]>>
                ELSE <<>>
        status == IF has("status_analysis")
                  THEN <<[section |-> "Status Analysis",
                          text |-> project_data["status_analysis"]]>>
                  ELSE <<[section |-> "Status Analysis", text |-> "N/A"]>>
        recent == LastN(token_usage.history, ReportWindow)
    IN [sections |-> overview \o team \o plan \o status,
        usage_data |-> [total_tokens |-> token_usage.total_tokens,
                        total_cost |-> Format4(token_usage.total_cost),
                        operations |-> token_usage.operations],
        history_data |-> [i \in 1..Len(recent) |-> HistoryRow(recent[i])]]

\* The story handed to doc.build: the sections in order, the usage table and
\* the rows of the operation-history table (no table when there is no history).
generate_project_report(project_data, token_usage) ==
    LET has(k) == k \in DOMAIN project_data
        overview == IF has("project_description")
                    THEN <<[section |-> "Project Overview",
                            text |-> project_data["project_description"]]>>
                    ELSE <<>>
        team == IF has("team_info")
                THEN <<[section |-> "Team", text |-> project_data["team_info"]]>>
                ELSE <<>>
        plan == IF has("project_plan")
                THEN <<[section |-> "Project Plan",
                        text |-> project_data["project_plan"]]>>
                ELSE <<>>
        status == IF has("status_analysis")
                  THEN <<[section |-> "Status Analysis",
                          text |-> project_data["status_analysis"]]>>
                  ELSE <<>>
        recent == LastN(token_usage.history, ReportWindow)
    IN [sections |-> overview \o team \o plan \o status,
        usage_data |-> [total_tokens |-> token_usage.total_tokens,
                        total_cost |-> Format4(token_usage.total_cost),
                        operations |-> token_usage.operations],
        history_data |-> [i \in 1..Len(recent) |-> HistoryRow(recent[i])]]

\* ------------------------------------------ class ProjectManagementSystem
\* __init__: every system makes its own TokenUsageTracker and its own
\* report_data dict; a session refers to its own system.
tracker_shared(s) == 1

tracker_of(s) == s

report_of(s) == s

estimate_rounding_up(text) ==
    LET estimated_tokens == (Len(text) + CharsPerToken - 1) \div CharsPerToken
    IN <<estimated_tokens, estimated_tokens * RatePerMillion>>

\* <<estimated_tokens, estimated_cost>>, the cost in micro-dollars.
estimate_tokens_and_cost(text) ==
    LET estimated_tokens == Len(text) \div CharsPerToken
        estimated_cost == estimated_tokens * RatePerMillion
    IN <<estimated_tokens, estimated_cost>>

\* The Crew run_project_planning builds: three agents, two tasks, sequential.
planning_crew_swapped(project_description, team_info) ==
    LET planner == project_planner
        allocator == task_allocator
        monitor == progress_monitor
        planning_task == create_project_plan(planner, project_description)
        allocation_task == allocate_tasks(allocator, project_description, team_info)
    IN [agents |-> <<planner, allocator, monitor>>,
        tasks |-> <<allocation_task, planning_task>>]

planning_crew(project_description, team_info) ==
    LET planner == project_planner
        allocator == task_allocator
        monitor == progress_monitor
        planning_task == create_project_plan(planner, project_description)
        allocation_task == allocate_tasks(allocator, project_description, team_info)
    IN [agents |-> <<planner, allocator, monitor>>,
        tasks |-> <<planning_task, allocation_task>>]

\* The Crew analyze_project_status builds.
analysis_crew(project_status, deliverables) ==
    LET monitor == progress_monitor
        reviewer == quality_reviewer
        monitoring_task == monitor_progress(monitor, project_status)
        review_task == review_quality(reviewer, deliverables)
    IN [agents |-> <<monitor, reviewer>>,
        tasks |-> <<monitoring_task, review_task>>]

\* What crew.kickoff() gave: a result, or an exception that leaves the method.
Returned(result) == [raised |-> FALSE, result |-> result]
Raised == [raised |-> TRUE, result |-> ""]

\* run_project_planning from crew.kickoff() on, as a function of what kickoff
\* gave.  st is [tracker, report]; the statements after kickoff run only when
\* it returns.
planning_after_kickoff_early_store(st, project_description, team_info, outcome, now) ==
    LET stored == DictUpdate(st.report,
                    [project_description |-> project_description,
                     team_info |-> team_info])
    IN IF outcome.raised
       THEN [tracker |-> st.tracker, report |-> stored]
       ELSE LET input_text == project_description \o " " \o team_info
                est == estimate_tokens_and_cost(input_text \o outcome.result)
            IN [tracker |-> add_usage(st.tracker, est[1], est[2], PLANNING, now),
                report |-> DictUpdate(stored, [project_plan |-> outcome.result])]

planning_after_kickoff_result_only(st, project_description, team_info, outcome, now) ==
    IF outcome.raised
    THEN st
    ELSE LET result == outcome.result
             report == DictUpdate(st.report,
                          [project_description |-> project_description,
                           team_info |-> team_info,
                           project_plan |-> result])
             est == estimate_tokens_and_cost(result)
         IN [tracker |-> add_usage(st.tracker, est[1], est[2], PLANNING, now),
             report |-> report]

planning_after_kickoff(st, project_description, team_info, outcome, now) ==
    IF outcome.raised
    THEN st
    ELSE LET input_text == project_description \o " " \o team_info
             result == outcome.result
             report == DictUpdate(st.report,
                          [project_description |-> project_description,
                           team_info |-> team_info,
                           project_plan |-> result])
             result_text == result
             est == estimate_tokens_and_cost(input_text \o result_text)
         IN [tracker |-> add_usage(st.tracker, est[1], est[2], PLANNING, now),
             report |-> report]

analysis_after_kickoff_replacing(st, project_status, deliverables, outcome, now) ==
    IF outcome.raised
    THEN st
    ELSE LET input_text == project_status \o " " \o deliverables
             result == outcome.result
             report == [project_status |-> project_status,
                        deliverables |-> deliverables,
                        status_analysis |-> result]
             est == estimate_tokens_and_cost(input_text \o result)
         IN [tracker |-> add_usage(st.tracker, est[1], est[2], ANALYSIS, now),
             report |-> report]

\* analyze_project_status from crew.kickoff() on.
analysis_after_kickoff(st, project_status, deliverables, outcome, now) ==
    IF outcome.raised
    THEN st
    ELSE LET input_text == project_status \o " " \o deliverables
             result == outcome.result
             report == DictUpdate(st.report,
                          [project_status |-> project_status,
                           deliverables |-> deliverables,
                           status_analysis |-> result])
             result_text == result
             est == estimate_tokens_and_cost(input_text \o result_text)
         IN [tracker |-> add_usage(st.tracker, est[1], est[2], ANALYSIS, now),
             report |-> report]

\* generate_pdf_report
generate_pdf_report(tr, rd) == generate_project_report(rd, get_summary(tr))

\* --------------------------------------------------- run_streamlit_app
\* if plan_button and project_desc and team_info
plan_guard_first_only(plan_button, project_desc, team_info) ==
    plan_button /\ Truthy(project_desc)

plan_guard(plan_button, project_desc, team_info) ==
    plan_button /\ Truthy(project_desc) /\ Truthy(team_info)

\* if analyze_button and status_info and deliverables_info
analyze_guard(analyze_button, status_info, deliverables_info) ==
    analyze_button /\ Truthy(status_info) /\ Truthy(deliverables_info)

\* if system.report_data
pdf_section_shown(rd) == rd /= EmptyDict

\* ------------------------------------------------------------- state
Tracker(s) == token_tracker[tracker_of(s)]
Report(s) == report_data[report_of(s)]
Snap(s) == [tracker |-> Tracker(s), report |-> Report(s)]

NoCrew == [op |-> "none", in1 |-> "", in2 |-> "", agents |-> <<>>,
           tasks |-> <<>>, outputs |-> <<>>]
NoCall == [op |-> "none", via |-> "none", blank |-> FALSE,
           status |-> "none", calls |-> <<>>, result |-> ""]
NoView == [kind |-> "none"]

\* os.environ: ANTHROPIC_API_KEY unset, set to the empty string, or set.
KeyUnset == [set |-> FALSE, value |-> ""]
KeyEmpty == [set |-> TRUE, value |-> ""]
KeyGiven == [set |-> TRUE, value |-> "sk-ant"]

\* os.getenv("ANTHROPIC_API_KEY") is truthy.
getenv_truthy(key) == key.set /\ Truthy(key.value)

\* The module-level llm = ChatAnthropic(...): built when a key is given; with
\* no key the installed library either builds it or raises at import.
llm_outcomes(key) ==
    IF getenv_truthy(key) THEN {"built"} ELSE {"built", "raised"}

Processes ==
    {[api_key |-> k, llm |-> l] :
        k \in {KeyUnset, KeyEmpty, KeyGiven}, l \in {"built", "raised"}}

\* if not os.getenv("ANTHROPIC_API_KEY"): st.error(...); st.stop()
api_key_check_is_set_only(key) == key.set

api_key_check(key) == getenv_truthy(key)

\* The script run reaches the widgets below the API key check.
script_reaches_widgets(p) == p.llm = "built" /\ api_key_check(p.api_key)

InitState ==
    /\ token_tracker = [o \in Sessions |-> NewTracker]
    /\ report_data = [o \in Sessions |-> EmptyDict]
    /\ pc = [s \in Sessions |-> "idle"]
    /\ crew = [s \in Sessions |-> NoCrew]
    /\ last = [s \in Sessions |-> NoCall]
    /\ pre = [s \in Sessions |-> [tracker |-> NewTracker, report |-> EmptyDict]]
    /\ shown = [s \in Sessions |-> NoView]
    /\ runs = 0
    /\ est_text = ""
    /\ est_result = [done |-> FALSE, tokens |-> 0, cost |-> 0]

\* A process started with its API key set.
Init == InitState /\ process = [api_key |-> KeyGiven, llm |-> "built"]

\* A process started with or without its API key.
InitApp ==
    /\ InitState
    /\ process \in {p \in Processes : p.llm \in llm_outcomes(p.api_key)}

estimator_vars == <<est_text, est_result>>
session_vars == <<token_tracker, report_data, pc, crew, last, pre, shown, runs>>

\* The entry point up to crew.kickoff(): agents and tasks are made, the Crew is
\* assembled and the kickoff begins.  Nothing of the session is written.
Begin(s, op, via, a, b) ==
    LET c == IF op = PLANNING THEN planning_crew(a, b) ELSE analysis_crew(a, b)
    IN /\ pc' = [pc EXCEPT ![s] = "ready"]
       /\ crew' = [crew EXCEPT ![s] =
              [op |-> op, in1 |-> a, in2 |-> b, agents |-> c.agents,
               tasks |-> c.tasks, outputs |-> <<>>]]
       /\ last' = [last EXCEPT ![s] =
              [op |-> op, via |-> via, blank |-> (a = "" \/ b = ""),
               status |-> "running", calls |-> <<>>, result |-> ""]]
       /\ pre' = [pre EXCEPT ![s] = Snap(s)]
       /\ shown' = [shown EXCEPT ![s] = NoView]
       /\ runs' = runs + 1
       /\ UNCHANGED <<token_tracker, report_data>>

\* The handler's script reruns and the guard is false: nothing is called.
Skip(s, op, a, b) ==
    /\ last' = [last EXCEPT ![s] =
           [op |-> op, via |-> "ui", blank |-> (a = "" \/ b = ""),
            status |-> "skipped", calls |-> <<>>, result |-> ""]]
    /\ shown' = [shown EXCEPT ![s] = NoView]
    /\ UNCHANGED <<token_tracker, report_data, pc, crew, pre, runs>>

\* The "Generate Project Plan" button.
ClickPlan(s, project_desc, team_info) ==
    /\ script_reaches_widgets(process)
    /\ pc[s] = "idle"
    /\ runs < MaxRuns
    /\ IF plan_guard(TRUE, project_desc, team_info)
       THEN Begin(s, PLANNING, "ui", project_desc, team_info)
       ELSE Skip(s, PLANNING, project_desc, team_info)
    /\ UNCHANGED <<estimator_vars, process>>

\* The "Analyze Status" button.
ClickAnalyze(s, status_info, deliverables_info) ==
    /\ script_reaches_widgets(process)
    /\ pc[s] = "idle"
    /\ runs < MaxRuns
    /\ IF analyze_guard(TRUE, status_info, deliverables_info)
       THEN Begin(s, ANALYSIS, "ui", status_info, deliverables_info)
       ELSE Skip(s, ANALYSIS, status_info, deliverables_info)
    /\ UNCHANGED <<estimator_vars, process>>

\* system.run_project_planning(...) called by a caller other than the handler.
run_project_planning(s, project_description, team_info) ==
    /\ pc[s] = "idle"
    /\ runs < MaxRuns
    /\ Begin(s, PLANNING, "call", project_description, team_info)
    /\ UNCHANGED <<estimator_vars, process>>

\* system.analyze_project_status(...) called by a caller other than the handler.
analyze_project_status(s, project_status, deliverables) ==
    /\ pc[s] = "idle"
    /\ runs < MaxRuns
    /\ Begin(s, ANALYSIS, "call", project_status, deliverables)
    /\ UNCHANGED <<estimator_vars, process>>

\* The method from crew.kickoff() on, for the run's entry point.
after_kickoff(c, st, outcome, now) ==
    IF c.op = PLANNING
    THEN planning_after_kickoff(st, c.in1, c.in2, outcome, now)
    ELSE analysis_after_kickoff(st, c.in1, c.in2, outcome, now)

\* The state the entry point leaves, written back to the system's objects.
Leave(s, st) ==
    /\ token_tracker' = [token_tracker EXCEPT ![tracker_of(s)] = st.tracker]
    /\ report_data' = [report_data EXCEPT ![report_of(s)] = st.report]

\* Process.sequential: kickoff takes the next task of crew.tasks, in list
\* order, and its agent calls the provider.
InvokeProvider(s) ==
    /\ pc[s] = "ready"
    /\ LET task == crew[s].tasks[Len(crew[s].outputs) + 1]
       IN last' = [last EXCEPT ![s].calls = Append(@, task.agent.role)]
    /\ pc' = [pc EXCEPT ![s] = "waiting"]
    /\ UNCHANGED <<token_tracker, report_data, crew, pre, shown, runs>>
    /\ UNCHANGED <<estimator_vars, process>>

\* The provider answers.  The task's output is captured; after the last task
\* kickoff returns that task's output and the entry point runs to its end
\* (the handler then shows format_summary()).
ProviderReturn(s, out, now) ==
    /\ pc[s] = "waiting"
    /\ LET outputs == Append(crew[s].outputs, out)
       IN IF Len(outputs) < Len(crew[s].tasks)
          THEN /\ crew' = [crew EXCEPT ![s].outputs = outputs]
               /\ pc' = [pc EXCEPT ![s] = "ready"]
               /\ UNCHANGED <<token_tracker, report_data, last, pre, shown>>
          ELSE LET st == after_kickoff(crew[s], Snap(s), Returned(out), now)
               IN /\ Leave(s, st)
                  /\ crew' = [crew EXCEPT ![s] = NoCrew]
                  /\ pc' = [pc EXCEPT ![s] = "idle"]
                  /\ last' = [last EXCEPT ![s].status = "ok", ![s].result = out]
                  /\ pre' = [pre EXCEPT ![s] = st]
                  /\ shown' = [shown EXCEPT ![s] =
                        IF last[s].via = "ui"
                        THEN [kind |-> "summary", body |-> format_summary(st.tracker)]
                        ELSE NoView]
    /\ UNCHANGED runs
    /\ UNCHANGED <<estimator_vars, process>>

\* The provider call fails: the exception leaves kickoff and the entry point
\* (the handler shows it with st.error).
ProviderFail(s) ==
    /\ pc[s] = "waiting"
    /\ Leave(s, after_kickoff(crew[s], Snap(s), Raised, "00:00:00"))
    /\ crew' = [crew EXCEPT ![s] = NoCrew]
    /\ pc' = [pc EXCEPT ![s] = "idle"]
    /\ last' = [last EXCEPT ![s].status = "error"]
    /\ UNCHANGED <<pre, shown, runs>>
    /\ UNCHANGED <<estimator_vars, process>>

\* The "Token Usage" tab: system.token_tracker.format_summary().
ViewUsage(s) ==
    /\ script_reaches_widgets(process)
    /\ pc[s] = "idle"
    /\ shown' = [shown EXCEPT ![s] =
          [kind |-> "summary", body |-> format_summary(Tracker(s))]]
    /\ UNCHANGED <<token_tracker, report_data, pc, crew, last, pre, runs>>
    /\ UNCHANGED <<estimator_vars, process>>

\* The "Generate PDF Report" button, offered when report_data is not empty.
ClickGeneratePdf(s) ==
    /\ script_reaches_widgets(process)
    /\ pc[s] = "idle"
    /\ pdf_section_shown(Report(s))
    /\ shown' = [shown EXCEPT ![s] =
          [kind |-> "pdf", body |-> generate_pdf_report(Tracker(s), Report(s))]]
    /\ UNCHANGED <<token_tracker, report_data, pc, crew, last, pre, runs>>
    /\ UNCHANGED <<estimator_vars, process>>

\* Spec: one session (session 1) with its front end: both buttons, both entry
\* points called directly, the provider's answers, and the two views.
\* A script run that ends before the widgets: the import of the module
\* raised, or the API key check reported the missing key and stopped.
ScriptStops(s) ==
    /\ ~script_reaches_widgets(process)
    /\ shown' = [shown EXCEPT ![s] =
          [kind |-> IF process.llm = "raised" THEN "import_error" ELSE "config_error"]]
    /\ UNCHANGED <<token_tracker, report_data, pc, crew, last, pre, runs>>
    /\ UNCHANGED <<estimator_vars, process>>

Next ==
    \/ \E a \in FirstInputs, b \in SecondInputs : ClickPlan(1, a, b)
    \/ \E a \in FirstInputs, b \in SecondInputs : ClickAnalyze(1, a, b)
    \/ \E a \in FirstInputs, b \in SecondInputs : run_project_planning(1, a, b)
    \/ \E a \in FirstInputs, b \in SecondInputs : analyze_project_status(1, a, b)
    \/ InvokeProvider(1)
    \/ \E out \in Outputs, now \in Times : ProviderReturn(1, out, now)
    \/ ProviderFail(1)
    \/ ViewUsage(1)
    \/ ClickGeneratePdf(1)

Spec == Init /\ [][Next]_vars

\* -------------------------------------------------------------- SpecApp
\* The application as its user drives it: session 1's front end only, in a
\* process started with or without the API key.
NextApp ==
    \/ \E a \in FirstInputs, b \in SecondInputs : ClickPlan(1, a, b)
    \/ \E a \in FirstInputs, b \in SecondInputs : ClickAnalyze(1, a, b)
    \/ InvokeProvider(1)
    \/ \E out \in Outputs, now \in Times : ProviderReturn(1, out, now)
    \/ ProviderFail(1)
    \/ ViewUsage(1)
    \/ ClickGeneratePdf(1)
    \/ ScriptStops(1)

SpecApp == InitApp /\ [][NextApp]_vars

\* ---------------------------------------------------------- SpecTracker
\* One TokenUsageTracker (that of session 1) driven by its own methods.
\* (tokens_used, cost, operation) triples handed to add_usage.
UsageSamples == {<<0, 0, PLANNING>>, <<7, 63, ANALYSIS>>}

CallAddUsage(s, u, now) ==
    /\ Len(Tracker(s).session_history) < MaxHistory
    /\ token_tracker' = [token_tracker EXCEPT ![tracker_of(s)] =
          add_usage(@, u[1], u[2], u[3], now)]
    /\ shown' = [shown EXCEPT ![s] = NoView]
    /\ UNCHANGED <<report_data, pc, crew, last, pre, runs>>
    /\ UNCHANGED <<estimator_vars, process>>

\* system.generate_pdf_report()
CallGeneratePdf(s) ==
    /\ shown' = [shown EXCEPT ![s] =
          [kind |-> "pdf", body |-> generate_pdf_report(Tracker(s), Report(s))]]
    /\ UNCHANGED <<token_tracker, report_data, pc, crew, last, pre, runs>>
    /\ UNCHANGED <<estimator_vars, process>>

NextTracker ==
    \/ \E u \in UsageSamples : CallAddUsage(1, u, "09:00:00")
    \/ ViewUsage(1)
    \/ CallGeneratePdf(1)

SpecTracker == Init /\ [][NextTracker]_vars

\* --------------------------------------------------------- SpecSessions
\* Two sessions, each with its own ProjectManagementSystem, whose runs
\* interleave at the provider calls.
NextSessions ==
    \/ \E s \in Sessions, a \in FirstInputs, b \in SecondInputs :
          run_project_planning(s, a, b)
    \/ \E s \in Sessions, a \in FirstInputs, b \in SecondInputs :
          analyze_project_status(s, a, b)
    \/ \E s \in Sessions : InvokeProvider(s)
    \/ \E s \in Sessions, out \in Outputs, now \in Times : ProviderReturn(s, out, now)
    \/ \E s \in Sessions : ProviderFail(s)

SpecSessions == Init /\ [][NextSessions]_vars

\* -------------------------------------------------------- SpecEstimator
\* _estimate_tokens_and_cost applied to texts of every length up to MaxChars.
TypeChar ==
    /\ Len(est_text) < MaxChars
    /\ est_text' = est_text \o "x"
    /\ est_result' = [done |-> FALSE, tokens |-> 0, cost |-> 0]
    /\ UNCHANGED <<session_vars, process>>

Estimate ==
    /\ LET est == estimate_tokens_and_cost(est_text)
       IN est_result' = [done |-> TRUE, tokens |-> est[1], cost |-> est[2]]
    /\ UNCHANGED est_text
    /\ UNCHANGED <<session_vars, process>>

NextEstimator == TypeChar \/ Estimate

SpecEstimator == Init /\ [][NextEstimator]_vars

\* ================================================================ claims

History(s) == Tracker(s).session_history

\* C1: a run whose provider call fails (at stage 1 or at stage 2 of 2) leaves
\* the report state and the usage ledger (totals and history) exactly as they
\* were when the run started; nothing is written while the run is in progress.
C1_FailedRunIsAtomic ==
    \A s \in Sessions :
        last[s].status \in {"running", "error"} => Snap(s) = pre[s]

\* A run failed at its second stage in a session that already held a report
\* and a ledger record.
C1_Witness ==
    /\ last[1].status = "error"
    /\ Len(last[1].calls) = 2
    /\ History(1) /= <<>>
    /\ Report(1) /= EmptyDict

\* C2: in every state total_tokens is the sum of the records' tokens and
\* total_cost the sum of their costs, and the totals change only in a step
\* that appends one record, by that record's values.
C2_TotalsAreSums ==
    /\ [](\A o \in Sessions :
            /\ token_tracker[o].total_tokens =
                  SumField(token_tracker[o].session_history, "tokens")
            /\ token_tracker[o].total_cost =
                  SumField(token_tracker[o].session_history, "cost"))
    /\ [][\A o \in Sessions :
            LET t == token_tracker[o]
                u == token_tracker'[o]
            IN (u.total_tokens /= t.total_tokens \/ u.total_cost /= t.total_cost)
               => /\ Len(u.session_history) = Len(t.session_history) + 1
                  /\ SubSeq(u.session_history, 1, Len(t.session_history))
                        = t.session_history
                  /\ u.total_tokens = t.total_tokens
                        + u.session_history[Len(u.session_history)].tokens
                  /\ u.total_cost = t.total_cost
                        + u.session_history[Len(u.session_history)].cost]_vars

\* Several records with non-zero tokens and costs have been added.
C2_Witness ==
    /\ Len(History(1)) >= 3
    /\ Tracker(1).total_tokens = 14
    /\ Tracker(1).total_cost = 126

\* The step in which session s's run returns successfully.
RunSucceeds(s) == last[s].status = "running" /\ last'[s].status = "ok"

\* C3 as stated: a run in which every stage succeeds grows the ledger by
\* len(stages) records (2 for either entry point).
C3_OneRecordPerStage ==
    [][\A s \in Sessions :
          RunSucceeds(s) =>
              Len(History(s))' = Len(History(s)) + Len(crew[s].tasks)]_vars

\* C3 amended: a run in which every stage succeeds grows the ledger by exactly
\* one record, labelled with the entry point's operation, with tokens >= 0.
C3_OneRecordPerRun ==
    [][\A s \in Sessions :
          RunSucceeds(s) =>
              /\ Len(History(s))' = Len(History(s)) + 1
              /\ SubSeq(History(s)', 1, Len(History(s))) = History(s)
              /\ History(s)'[Len(History(s)')].tokens >= 0
              /\ History(s)'[Len(History(s)')].operation = last[s].op]_vars

\* A two-stage run has succeeded and the ledger holds its record.
C3_Witness ==
    /\ last[1].status = "ok"
    /\ last[1].calls = <<"Project Planner", "Task Allocator">>
    /\ Len(History(1)) = 1
    /\ History(1)[1].tokens > 0

\* C4: in a planning run, once the Planner's output is captured, the
\* Allocator task's "Project Plan" text is that output.
C4_PlanIsPlannerOutput ==
    \A s \in Sessions :
        (crew[s].op = PLANNING /\ Len(crew[s].outputs) >= 1) =>
            \E i \in 1..Len(crew[s].tasks) :
                /\ crew[s].tasks[i].template = "allocate_tasks"
                /\ crew[s].tasks[i].slots.project_plan = crew[s].outputs[1]

\* C5: a successful planning run called the provider exactly twice, for the
\* Project Planner and then the Task Allocator, and never for the Progress
\* Monitor; a successful analysis run called it for the Progress Monitor and
\* then the Quality Reviewer; and a stage's call never starts before every
\* earlier stage's output is captured.
C5_StageOrder ==
    \A s \in Sessions :
        /\ (last[s].status = "ok" /\ last[s].op = PLANNING) =>
              last[s].calls = <<"Project Planner", "Task Allocator">>
        /\ (last[s].status = "ok" /\ last[s].op = ANALYSIS) =>
              last[s].calls = <<"Progress Monitor", "Quality Reviewer">>
        /\ last[s].op = PLANNING =>
              \A i \in 1..Len(last[s].calls) : last[s].calls[i] /= "Progress Monitor"
        /\ pc[s] = "waiting" => Len(last[s].calls) = Len(crew[s].outputs) + 1
        /\ pc[s] = "ready" => Len(last[s].calls) = Len(crew[s].outputs)

\* The second stage of a planning run is being called, the first one's output
\* captured.
C5_Witness ==
    /\ pc[1] = "waiting"
    /\ last[1].op = PLANNING
    /\ last[1].calls = <<"Project Planner", "Task Allocator">>
    /\ Len(crew[1].outputs) = 1

\* C6 as stated: an entry point given an empty required text builds no stage
\* and calls no provider.
C6_EmptyInputRejected ==
    \A s \in Sessions :
        last[s].blank => (pc[s] = "idle" /\ crew[s] = NoCrew /\ last[s].calls = <<>>)

\* C6 amended: a button pressed with an empty required text invokes no entry
\* point: no run starts, no provider is called, and ledger and report state
\* stay as they are (no error is raised; the entry points do not validate).
C6_FrontEndSkipsEmptyInput ==
    [][\A s \in Sessions :
          (last'[s].via = "ui" /\ last'[s].blank) =>
              /\ last'[s].status = "skipped"
              /\ last'[s].calls = <<>>
              /\ pc'[s] = "idle"
              /\ crew'[s] = NoCrew
              /\ Snap(s)' = Snap(s)]_vars

\* A button was pressed with an empty text in a session that holds a record.
C6_Witness ==
    /\ last[1].status = "skipped"
    /\ last[1].blank
    /\ History(1) /= <<>>

\* C7: for a text of charCount characters the estimator gives
\* units = floor(charCount / 4) and cost = units * 9 millionths of a dollar
\* (units / 1_000_000 * 9.0 dollars), and (0, 0) for the empty text.
C7_Estimate ==
    est_result.done =>
        /\ est_result.tokens * 4 <= Len(est_text)
        /\ Len(est_text) < est_result.tokens * 4 + 4
        /\ est_result.cost = est_result.tokens * 9
        /\ (Len(est_text) = 0 => (est_result.tokens = 0 /\ est_result.cost = 0))

\* A text whose length is no multiple of 4 has been estimated.
C7_Witness ==
    /\ est_result.done
    /\ Len(est_text) = 39
    /\ est_result.tokens = 9
    /\ est_result.cost = 81

\* The k-th of the rows shows the record rec.
Shows(row, rec) ==
    /\ row.timestamp = rec.timestamp
    /\ row.operation = rec.operation
    /\ row.tokens = rec.tokens

\* rows are the last Min(n, window) records of h, in append order.
IsRecentWindow(rows, h, window) ==
    LET n == Len(h)
        k == IF n >= window THEN window ELSE n
    IN /\ Len(rows) = k
       /\ \A i \in 1..k : Shows(rows[i], h[n - k + i])

\* C8: format_summary shows the last 5 records in append order when the
\* ledger holds 5 or more, all of them when fewer; the exported report does
\* the same with 10.
C8_RecentWindow ==
    \A s \in Sessions :
        /\ shown[s].kind = "summary" =>
              IsRecentWindow(shown[s].body.history_text, History(s), 5)
        /\ shown[s].kind = "pdf" =>
              IsRecentWindow(shown[s].body.history_data, History(s), 10)

\* The summary of a ledger of more than 5 records whose first record differs
\* from the first one shown.
C8_Witness ==
    /\ shown[1].kind = "summary"
    /\ Len(History(1)) = 7
    /\ History(1)[1] /= History(1)[3]
    /\ Len(shown[1].body.history_text) = 5

\* C9: in every step every record already in session_history stays at its
\* position with its field values; the history only grows at its end.
C9_AppendOnly ==
    [][\A o \in Sessions :
          LET h == token_tracker[o].session_history
              g == token_tracker'[o].session_history
          IN Len(g) >= Len(h) /\ SubSeq(g, 1, Len(h)) = h]_vars

\* Two runs have appended their records and the report has been exported.
C9_Witness ==
    /\ Len(History(1)) = 2
    /\ shown[1].kind = "pdf"

\* C10: a step that is not session s's own (it leaves s's run position, crew
\* and call record alone) leaves s's ledger and report state unchanged.
C10_SessionIsolation ==
    [][\A s \in Sessions :
          (pc'[s] = pc[s] /\ crew'[s] = crew[s] /\ last'[s] = last[s])
              => Snap(s)' = Snap(s)]_vars

\* Session 2 finished a run while session 1's run was between its stages.
C10_Witness ==
    /\ pc[1] = "waiting"
    /\ Len(crew[1].outputs) = 1
    /\ last[2].status = "ok"
    /\ History(2) /= <<>>
    /\ History(1) = <<>>
    /\ Report(1) = EmptyDict

\* C11: in a process without the API key no entry point is invoked and the
\* provider is never called: no run starts, no call is recorded, ledger and
\* report stay as constructed; the script run only reports the missing
\* configuration (or the import has failed), never an error of a run.
C11_NoKeyNoRun ==
    ~(process.api_key.set /\ process.api_key.value /= "") =>
        /\ runs = 0
        /\ \A s \in Sessions :
              /\ pc[s] = "idle"
              /\ crew[s] = NoCrew
              /\ last[s] = NoCall
              /\ Tracker(s) = NewTracker
              /\ Report(s) = EmptyDict
              /\ shown[s].kind \in {"none", "config_error", "import_error"}

\* The key is set but empty, the module was imported, and a script run has
\* reported the missing key.
C11_Witness ==
    /\ process.api_key = KeyEmpty
    /\ process.llm = "built"
    /\ shown[1].kind = "config_error"

\* The section headings of an exported report.
SectionNames(report) ==
    {report.sections[i].section : i \in 1..Len(report.sections)}

\* C12: the exported report holds a section exactly for the keys of
\* report_data it renders that are present (description, team, plan, status
\* analysis), in order and once each, with nothing in the place of an absent
\* one, and it always holds the ledger summary.
C12_AbsentSectionsOmitted ==
    \A s \in Sessions :
        shown[s].kind = "pdf" =>
            LET report == shown[s].body
                names == SectionNames(report)
                keys == DOMAIN Report(s)
            IN /\ ("Project Overview" \in names) <=> ("project_description" \in keys)
               /\ ("Team" \in names) <=> ("team_info" \in keys)
               /\ ("Project Plan" \in names) <=> ("project_plan" \in keys)
               /\ ("Status Analysis" \in names) <=> ("status_analysis" \in keys)
               /\ Len(report.sections) = Cardinality(names)
               /\ Cardinality(names) =
                     Cardinality(keys \cap {"project_description", "team_info",
                                            "project_plan", "status_analysis"})
               /\ report.usage_data.total_tokens = Tracker(s).total_tokens
               /\ report.usage_data.operations = Len(History(s))

\* A report exported when a plan is stored and no status analysis is.
C12_Witness ==
    /\ shown[1].kind = "pdf"
    /\ "Project Plan" \in SectionNames(shown[1].body)
    /\ "Status Analysis" \notin SectionNames(shown[1].body)
    /\ "status_analysis" \notin DOMAIN Report(1)

\* The record a successful run has just appended.
NewRecord(s) == History(s)'[Len(History(s)')]

\* units = floor(chars / 4), stated without the division.
IsFloorOfQuarter(units, chars) == units * 4 <= chars /\ chars < units * 4 + 4

\* C13 as stated: the units of the record appended for a successful stage are
\* the estimator's over the length of that stage's rendered instructions plus
\* the length of its output (the stage that ends the run: its output is the
\* run's result).
C13_MeteredOverRenderedInstructions ==
    [][\A s \in Sessions :
          RunSucceeds(s) =>
              IsFloorOfQuarter(NewRecord(s).tokens,
                  RenderedLen(crew[s].tasks[Len(crew[s].tasks)])
                      + Len(last'[s].result))]_vars

\* C13 amended: the units of the record appended for a successful run are
\* the estimator's over the length of the two caller texts joined by one
\* space plus the length of the run's result, and its cost is theirs.
C13_MeteredOverInputsAndResult ==
    [][\A s \in Sessions :
          RunSucceeds(s) =>
              /\ IsFloorOfQuarter(NewRecord(s).tokens,
                    Len(crew[s].in1) + 1 + Len(crew[s].in2) + Len(last'[s].result))
              /\ NewRecord(s).cost = NewRecord(s).tokens * 9]_vars

\* A planning run on "app" and "devs" that returned "plan" was metered at
\* 12 characters, 3 tokens.
C13_Witness ==
    /\ last[1].status = "ok"
    /\ last[1].op = PLANNING
    /\ last[1].result = "plan"
    /\ Report(1)["project_description"] = "app"
    /\ Report(1)["team_info"] = "devs"
    /\ Len(History(1)) = 1
    /\ History(1)[1].tokens = 3

\* The sections a successful run of crew c that returned result writes.
Written(c, result) ==
    IF c.op = PLANNING
    THEN [project_description |-> c.in1, team_info |-> c.in2,
          project_plan |-> result]
    ELSE [project_status |-> c.in1, deliverables |-> c.in2,
          status_analysis |-> result]

\* C14: a successful run sets its own three sections to its inputs and its
\* result and leaves every other section as it was (a planning run the
\* status-analysis sections, a status-analysis run the description, team and
\* plan sections); every other step, a failed run's included, changes no
\* section.  So each section holds what the latest successful run that writes
\* it wrote, and after a successful run its result section holds its result.
C14_LatestCommittedValue ==
    /\ [](\A s \in Sessions :
            last[s].status = "ok" =>
                LET key == IF last[s].op = PLANNING
                           THEN "project_plan" ELSE "status_analysis"
                IN key \in DOMAIN Report(s) /\ Report(s)[key] = last[s].result)
    /\ [][\A s \in Sessions :
            IF RunSucceeds(s)
            THEN LET written == Written(crew[s], last'[s].result)
                 IN /\ DOMAIN Report(s)' = (DOMAIN Report(s)) \cup (DOMAIN written)
                    /\ \A k \in DOMAIN Report(s)' :
                          Report(s)'[k] = IF k \in DOMAIN written
                                          THEN written[k] ELSE Report(s)[k]
            ELSE Report(s)' = Report(s)]_vars

\* A status-analysis run succeeded after a planning run: the plan sections
\* still hold what the planning run wrote.
C14_Witness ==
    /\ last[1].status = "ok"
    /\ last[1].op = ANALYSIS
    /\ DOMAIN Report(1) = {"project_description", "team_info", "project_plan",
                           "project_status", "deliverables", "status_analysis"}
    /\ Report(1)["project_plan"] = "plan"
    /\ Report(1)["status_analysis"] = "long review text"

\* All of the keys are in the dict, or none of them is.
AllOrNone(d, keys) == (keys \subseteq DOMAIN d) \/ (keys \cap DOMAIN d = {})

\* C15: between entry-point calls the report state is non-empty exactly when
\* the ledger holds a record, the plan section is there exactly when the
\* description and team sections are (likewise status_analysis with
\* project_status and deliverables); and a step changes the report only if it
\* appends one ledger record, and appends a record only if it is a run's
\* successful return that also writes that run's sections.
C15_ReportAndLedgerInLockstep ==
    /\ [](\A s \in Sessions :
            pc[s] = "idle" =>
                /\ (Report(s) /= EmptyDict) <=> (Len(History(s)) >= 1)
                /\ AllOrNone(Report(s),
                      {"project_description", "team_info", "project_plan"})
                /\ AllOrNone(Report(s),
                      {"project_status", "deliverables", "status_analysis"}))
    /\ [][\A s \in Sessions :
            /\ Report(s)' /= Report(s) =>
                  /\ Len(History(s)') = Len(History(s)) + 1
                  /\ RunSucceeds(s)
            /\ History(s)' /= History(s) =>
                  /\ RunSucceeds(s)
                  /\ LET written == Written(crew[s], last'[s].result)
                     IN \A k \in DOMAIN written :
                           k \in DOMAIN Report(s)' /\ Report(s)'[k] = written[k]]_vars

\* One run has succeeded and a later one has failed: one record, and the
\* sections of the successful run only.
C15_Witness ==
    /\ pc[1] = "idle"
    /\ last[1].status = "error"
    /\ Len(History(1)) = 1
    /\ Cardinality(DOMAIN Report(1)) = 3

====
